---- MODULE Spec2Model ----
(***************************************************************************)
(* Model of prod.py: the frame acquisition retry loop (generate_frames)    *)
(* and the request handler (index) that decodes, normalises and assembles  *)
(* the frames into an animated GIF.                                        *)
(*                                                                         *)
(* Every request owns one record of locals (the locals of index and of the *)
(* generate_frames call it makes).  inv maps the live requests to their    *)
(* records.  The backend (client.models.generate_content), the image       *)
(* decoder and the encoders are the environment: their outcomes are drawn  *)
(* with \E in the actions.                                                 *)
(***************************************************************************)
EXTENDS Integers, Sequences, FiniteSets

VARIABLES inv

vars == <<inv>>

(* ------------------------------ bounds --------------------------------- *)

\* largest retry budget explored (index passes the default, 3)
MaxRetries == 3
\* budgets below 0 explored: max_retries ranges over -MinRetries..MaxRetries
MinRetries == 1
\* most parts in the first candidate of a backend response
MaxParts == 3

\* largest image dimension explored by the normalisation specification
MaxDim == 1200
\* there, one dimension takes every value 1..MaxDim, the other every DimStep-th
DimStep == 25

(* --------------------------- program constants -------------------------- *)

\* max_size = (800, 800)
max_size == <<800, 800>>
\* duration=500, loop=0, disposal=2 of the GIF save call
gif_duration == 500
gif_loop == 0
gif_disposal == 2
\* def generate_frames(prompt, max_retries=3), the budget index relies on
default_max_retries == 3
\* time.sleep(1) before a retry with the enhanced prompt
retry_delay == 1

\* the sentence appended to the prompt before a retry (one token)
ENHANCE == "Please create at least 5 distinct frames"

\* result strings of index
ERR_GENERATE == "Error: Unable to generate frames at this time."
ERR_NO_FRAMES == "Error: No frames generated."
ERR_GIF == "Error: Unable to create GIF."
SUCCESS == "success"
NONE == "None"

(* ------------------------------ helpers --------------------------------- *)

Abs(n) == IF n < 0 THEN -n ELSE n

Max2(a, b) == IF a >= b THEN a ELSE b

RECURSIVE Pow2(_)
Pow2(n) == IF n <= 0 THEN 1 ELSE 2 * Pow2(n - 1)

\* sequences over S of length 0..n
SeqUpTo(S, n) == UNION {[1..k -> S] : k \in 0..n}

(* --------------------------- backend responses -------------------------- *)

\* a part without inline data (text)
TextPart == [inline |-> "none", w |-> 0, h |-> 0, pix |-> 0]
\* a part whose inline data cannot be decoded / converted
CorruptPart == [inline |-> "corrupt", w |-> 0, h |-> 0, pix |-> 0]
\* a part whose inline data decodes to a w x h image; pix names its pixels:
\* two images of one size are the same picture iff they have the same pix
ImagePart(w, h, pix) == [inline |-> "image", w |-> w, h |-> h, pix |-> pix]

\* images <<w, h, pix>> the backend returns in the request specification
PoolImages == {<<100, 100, 1>>, <<100, 100, 2>>, <<1600, 800, 1>>}

Parts == {TextPart, CorruptPart} \cup {ImagePart(s[1], s[2], s[3]) : s \in PoolImages}

\* response object: candidates is empty, or holds the first candidate's parts
Response(parts) == [isNone |-> FALSE, candidates |-> <<parts>>]
NoCandidates == [isNone |-> FALSE, candidates |-> <<>>]
NoResponse == [isNone |-> TRUE, candidates |-> <<>>]

Responses == {NoCandidates} \cup {Response(p) : p \in SeqUpTo(Parts, MaxParts)}

\* outcome of one backend call: it raises, or it returns a response
RaiseOutcome == [kind |-> "raise", response |-> NoResponse]
ReturnOutcome(r) == [kind |-> "return", response |-> r]
Outcomes == {RaiseOutcome} \cup {ReturnOutcome(r) : r \in Responses}

(* ----------------------------- generate_frames -------------------------- *)

\* the parts of the first candidate (none when there are no candidates)
PartsOf(response) ==
    IF response.isNone \/ response.candidates = <<>> THEN <<>>
    ELSE response.candidates[1]

\* lines 55-59: parts of the first candidate that carry inline data
frame_count(response) ==
    Cardinality({k \in DOMAIN PartsOf(response) : PartsOf(response)[k].inline # "none"})

\* Accepts with a bug: one frame is enough
AcceptsAny(count) == count > 0

\* line 61: the acceptance test
Accepts(count) == count > 1

\* BackoffDelay with a bug: the exponent starts at 0 (2 ** (attempt - 1))
BackoffFromOne(attempt) == Pow2(attempt - 1)

\* BackoffDelay with a bug: a fixed delay
BackoffFixed(attempt) == 2

\* line 51: time.sleep(2 ** attempt)
BackoffDelay(attempt) == Pow2(attempt)

\* line 68: the prompt of the next attempt
EnhancePrompt(prompt) == Append(prompt, ENHANCE)

\* what one attempt leaves in the attempt log
LogEntry(s, o) ==
    [attempt |-> s.attempt, prompt |-> s.prompt, kind |-> o.kind,
     frame_count |-> IF o.kind = "raise" THEN 0 ELSE frame_count(o.response)]

\* InRange with a bug: one attempt too many (range(max_retries + 1))
InRangePlusOne(s) == s.attempt <= s.max_retries + 1

\* line 39: for attempt in range(1, max_retries + 1)
InRange(s) == s.attempt <= s.max_retries

\* OnRaise with a bug: the retry after an error also gets the enhanced prompt
OnRaiseEnhanced(s) ==
    IF s.attempt = s.max_retries
    THEN [s EXCEPT !.pc = "done", !.raised = TRUE, !.result = ERR_GENERATE]
    ELSE [s EXCEPT !.sleeps = Append(@, BackoffDelay(s.attempt)),
                   !.prompt = EnhancePrompt(@),
                   !.attempt = @ + 1]

\* OnRaise with a bug: the first failed call is re-raised at once
OnRaiseAtOnce(s) ==
    [s EXCEPT !.pc = "done", !.raised = TRUE, !.result = ERR_GENERATE]

\* OnRaise with a bug: a failed call does not use up an attempt
OnRaiseNotCounted(s) ==
    IF s.attempt = s.max_retries
    THEN [s EXCEPT !.pc = "done", !.raised = TRUE, !.result = ERR_GENERATE]
    ELSE [s EXCEPT !.sleeps = Append(@, BackoffDelay(s.attempt))]

\* lines 47-52: the backend call of this attempt raised
OnRaise(s) ==
    IF s.attempt = s.max_retries
    THEN \* re-raised out of generate_frames, caught by index (lines 125-130)
         [s EXCEPT !.pc = "done", !.raised = TRUE, !.result = ERR_GENERATE]
    ELSE [s EXCEPT !.sleeps = Append(@, BackoffDelay(s.attempt)),
                   !.attempt = @ + 1]

\* ReturnResponse with a bug: the sleep and the prompt change precede the return
ReturnResponseLate(s) ==
    [s EXCEPT !.pc = "extract", !.returned = TRUE, !.response = s.gf_response,
              !.i = 1, !.prompt = EnhancePrompt(@),
              !.sleeps = Append(@, retry_delay)]

\* lines 63 and 66: generate_frames returns its local response to index
ReturnResponse(s) ==
    [s EXCEPT !.pc = "extract", !.returned = TRUE, !.response = s.gf_response,
              !.i = 1]

\* OnResponse with a bug: the prompt is one module-level variable that every
\* request reads and enhances (here: the longest prompt any request has set)
OnResponseSharedPrompt(s) ==
    LET shared == CHOOSE p \in {inv[r].prompt : r \in DOMAIN inv} :
                      \A r \in DOMAIN inv : Len(inv[r].prompt) <= Len(p)
    IN  IF Accepts(frame_count(s.gf_response)) \/ s.attempt = s.max_retries
        THEN ReturnResponse(s)
        ELSE [s EXCEPT !.prompt = EnhancePrompt(shared),
                       !.sleeps = Append(@, retry_delay),
                       !.attempt = @ + 1]

\* OnResponse with a bug: a retry after a low response is not counted
OnResponseSameAttempt(s) ==
    IF Accepts(frame_count(s.gf_response)) \/ s.attempt = s.max_retries
    THEN ReturnResponse(s)
    ELSE [s EXCEPT !.prompt = EnhancePrompt(@),
                   !.sleeps = Append(@, retry_delay)]

\* OnResponse with a bug: the budget is taken to end one attempt early
OnResponseEarlyExit(s) ==
    IF Accepts(frame_count(s.gf_response)) \/ s.attempt >= s.max_retries - 1
    THEN ReturnResponse(s)
    ELSE [s EXCEPT !.prompt = EnhancePrompt(@),
                   !.sleeps = Append(@, retry_delay),
                   !.attempt = @ + 1]

\* lines 54-69: the backend call of this attempt returned s.gf_response
OnResponse(s) ==
    IF Accepts(frame_count(s.gf_response)) \/ s.attempt = s.max_retries
    THEN ReturnResponse(s)
    ELSE [s EXCEPT !.prompt = EnhancePrompt(@),
                   !.sleeps = Append(@, retry_delay),
                   !.attempt = @ + 1]

\* lines 39-69: one iteration of the retry loop, backend outcome o
AttemptStep(s, o) ==
    LET called == [s EXCEPT !.calls = @ + 1, !.log = Append(@, LogEntry(s, o))]
    IN  IF o.kind = "raise" THEN OnRaise(called)
        ELSE OnResponse([called EXCEPT !.gf_response = o.response])

\* line 70: range(1, max_retries + 1) is exhausted without a return
LoopExhausted(s) ==
    [s EXCEPT !.pc = "extract", !.returned = TRUE, !.response = NoResponse]

(* ------------------------ normalisation (index) ------------------------- *)

\* floor and ceiling of a / b for a >= 0, b > 0
FloorDiv(a, b) == a \div b
CeilDiv(a, b) == IF a % b = 0 THEN a \div b ELSE (a \div b) + 1

\* Image.thumbnail, x / y >= aspect: the width n in {floor, ceil} of
\* y * w / h with the smaller key |aspect - n / y|.  The keys are floats: when
\* they tie exactly, rounding error decides, so either may win (up)
RoundWidth(w, h, y, up) ==
    LET f == FloorDiv(y * w, h)
        c == CeilDiv(y * w, h)
        kf == Abs(w * y - f * h)
        kc == Abs(w * y - c * h)
        n == IF kf < kc THEN f ELSE IF kc < kf THEN c ELSE IF up THEN c ELSE f
    IN  Max2(n, 1)

\* Image.thumbnail, x / y < aspect: the height n in {floor, ceil} of x * h / w
\* with the smaller key, key(0) = 0 and key(n) = |aspect - x / n|
RoundHeight(w, h, x, up) ==
    LET f == FloorDiv(x * h, w)
        c == CeilDiv(x * h, w)
        kf == Abs(w * f - x * h) * c
        kc == Abs(w * c - x * h) * f
        n == IF f = 0 THEN f
             ELSE IF kf < kc THEN f ELSE IF kc < kf THEN c ELSE IF up THEN c ELSE f
    IN  Max2(n, 1)

\* Thumbnail with a bug: the scaled side is truncated (int(x * h / w))
ThumbnailTruncated(w, h, size, up) ==
    LET x == size[1]
        y == size[2]
    IN  IF x >= w /\ y >= h THEN <<w, h>>
        ELSE IF x * h >= w * y THEN <<Max2(FloorDiv(y * w, h), 1), y>>
        ELSE <<x, Max2(FloorDiv(x * h, w), 1)>>

\* line 146: image.thumbnail(max_size), the size it leaves the image with
Thumbnail(w, h, size, up) ==
    LET x == size[1]
        y == size[2]
    IN  IF x >= w /\ y >= h THEN <<w, h>>
        ELSE IF x * h >= w * y THEN <<RoundWidth(w, h, y, up), y>>
        ELSE <<x, RoundHeight(w, h, x, up)>>

\* line 145: the test that guards the thumbnail call
Oversized(w, h) == w > max_size[1] \/ h > max_size[2]

\* NormalizedSize with a bug: every image is scaled to fill the 800 x 800 box
NormalizedSizeFitted(w, h, up) ==
    IF max_size[1] * h >= w * max_size[2]
    THEN <<RoundWidth(w, h, max_size[2], up), max_size[2]>>
    ELSE <<max_size[1], RoundHeight(w, h, max_size[1], up)>>

\* lines 144-146: the size of the normalised frame of a w x h image
NormalizedSize(w, h, up) ==
    IF Oversized(w, h) THEN Thumbnail(w, h, max_size, up) ELSE <<w, h>>

\* lines 142-147: the RGBA frame made of part number k
Frame(k, part, up) ==
    LET size == NormalizedSize(part.w, part.h, up)
    IN  [src |-> k, mode |-> "RGBA", w |-> size[1], h |-> size[2],
         orig_w |-> part.w, orig_h |-> part.h, pix |-> part.pix]

\* lines 72-86 image_to_base64: the PNG still of a frame, "" when saving raised
EmptyStill == [format |-> "", src |-> 0, w |-> 0, h |-> 0]
image_to_base64(frame, saved) ==
    IF saved THEN [format |-> "PNG", src |-> frame.src, w |-> frame.w, h |-> frame.h]
    ELSE EmptyStill

\* ExtractStep with a bug: a still that could not be encoded is left out
ExtractStepSkipEmptyStill(s, saved, up) ==
    LET part == PartsOf(s.response)[s.i]
        next == [s EXCEPT !.i = @ + 1]
    IN  IF part.inline = "none" THEN next
        ELSE IF part.inline = "corrupt"
        THEN [next EXCEPT !.load_errors = Append(@, s.i)]
        ELSE IF saved
        THEN [next EXCEPT
                !.frames = Append(@, Frame(s.i, part, up)),
                !.frames_base64 = Append(@, image_to_base64(Frame(s.i, part, up), saved))]
        ELSE [next EXCEPT !.frames = Append(@, Frame(s.i, part, up))]

\* ExtractStep with a bug: an undecodable part ends the loop
ExtractStepAbort(s, saved, up) ==
    LET part == PartsOf(s.response)[s.i]
        next == [s EXCEPT !.i = @ + 1]
    IN  IF part.inline = "none" THEN next
        ELSE IF part.inline = "corrupt"
        THEN [s EXCEPT !.i = Len(PartsOf(s.response)) + 1,
                       !.load_errors = Append(@, s.i)]
        ELSE [next EXCEPT
                !.frames = Append(@, Frame(s.i, part, up)),
                !.frames_base64 = Append(@, image_to_base64(Frame(s.i, part, up), saved))]

\* lines 139-151: the loop body for the part at position s.i
ExtractStep(s, saved, up) ==
    LET part == PartsOf(s.response)[s.i]
        next == [s EXCEPT !.i = @ + 1]
    IN  IF part.inline = "none" THEN next
        ELSE IF part.inline = "corrupt"
        THEN \* Image.open / convert raised: logged, the part is skipped
             [next EXCEPT !.load_errors = Append(@, s.i)]
        ELSE [next EXCEPT
                !.frames = Append(@, Frame(s.i, part, up)),
                !.frames_base64 = Append(@, image_to_base64(Frame(s.i, part, up), saved))]

(* --------------------------- assembly (index) --------------------------- *)

NoGif ==
    [isNone |-> TRUE, frames |-> <<>>, size |-> <<0, 0>>, written |-> <<>>,
     loop |-> 0, disposal |-> 0]

\* line 161: frame.convert('P', palette=Image.ADAPTIVE)
Optimized(frame) == [frame EXCEPT !.mode = "P"]

\* two frames hold the same picture
SamePicture(f, g) == f.w = g.w /\ f.h = g.h /\ f.pix = g.pix

\* lines 162-163, save(format="GIF", save_all=True, append_images=...): the
\* frames the GIF writer emits for the first n frames.  A frame that does not
\* differ from the frame before it is not written, its duration is added to
\* the frame already written; every frame is shown on the canvas of the file,
\* whose size is the size of the first frame
RECURSIVE WrittenFrames(_, _)
WrittenFrames(frames, n) ==
    IF n = 0 THEN <<>>
    ELSE LET before == WrittenFrames(frames, n - 1)
         IN  IF n > 1 /\ SamePicture(frames[n], frames[n - 1])
             THEN [before EXCEPT ![Len(before)].duration = @ + gif_duration]
             ELSE Append(before,
                         [src |-> frames[n].src, w |-> frames[1].w, h |-> frames[1].h,
                          pix |-> frames[n].pix, duration |-> gif_duration])

\* lines 161-165: the GIF saved from the frames, first frame first
EncodeGif(frames) ==
    [isNone |-> FALSE,
     frames |-> [k \in DOMAIN frames |-> Optimized(frames[k])],
     size |-> IF frames = <<>> THEN <<0, 0>> ELSE <<frames[1].w, frames[1].h>>,
     written |-> WrittenFrames(frames, Len(frames)),
     loop |-> gif_loop, disposal |-> gif_disposal]

\* OnEncodeError with a bug: the exception is not caught and leaves index
OnEncodeErrorUncaught(s) ==
    [s EXCEPT !.pc = "done", !.encode_raised = TRUE, !.escaped = TRUE]

\* lines 169-171: the save raised
OnEncodeError(s) == [s EXCEPT !.pc = "done", !.encode_raised = TRUE, !.result = ERR_GIF]

\* AssembleStep with a bug: an animation needs more than one frame
AssembleStepNeedsTwo(s, encoded) ==
    IF Len(s.frames) > 1
    THEN IF encoded
         THEN [s EXCEPT !.pc = "done", !.gif_base64 = EncodeGif(s.frames),
                        !.result = SUCCESS]
         ELSE OnEncodeError(s)
    ELSE [s EXCEPT !.pc = "done", !.result = ERR_NO_FRAMES]

\* AssembleStep with a bug: no test that there are frames
AssembleStepUnguarded(s, encoded) ==
    IF encoded
    THEN [s EXCEPT !.pc = "done", !.gif_base64 = EncodeGif(s.frames),
                   !.result = SUCCESS]
    ELSE OnEncodeError(s)

\* AssembleStep with a bug: the stills are dropped when the save raises
AssembleStepDropStills(s, encoded) ==
    IF s.frames # <<>>
    THEN IF encoded
         THEN [s EXCEPT !.pc = "done", !.gif_base64 = EncodeGif(s.frames),
                        !.result = SUCCESS]
         ELSE [OnEncodeError(s) EXCEPT !.frames_base64 = <<>>]
    ELSE [s EXCEPT !.pc = "done", !.result = ERR_NO_FRAMES]

\* lines 156-173: after the extraction loop
AssembleStep(s, encoded) ==
    IF s.frames # <<>>
    THEN IF encoded
         THEN [s EXCEPT !.pc = "done", !.gif_base64 = EncodeGif(s.frames),
                        !.result = SUCCESS]
         ELSE OnEncodeError(s)
    ELSE [s EXCEPT !.pc = "done", !.result = ERR_NO_FRAMES]

\* lines 152-154 and 172-173: no response or no candidates
NoCandidatesStep(s) == [s EXCEPT !.pc = "done", !.result = ERR_NO_FRAMES]

(* ------------------------------- requests ------------------------------- *)

\* lines 112-114 and the defaults of the locals of one request
Locals(method, max_retries) ==
    [method |-> method, max_retries |-> max_retries, pc |-> "index",
     prompt |-> <<>>, attempt |-> 0, calls |-> 0, sleeps |-> <<>>, log |-> <<>>,
     gf_response |-> NoResponse,
     raised |-> FALSE, returned |-> FALSE, response |-> NoResponse,
     encode_raised |-> FALSE, escaped |-> FALSE,
     i |-> 0, load_errors |-> <<>>,
     frames |-> <<>>, frames_base64 |-> <<>>, gif_base64 |-> NoGif,
     result |-> NONE]

\* lines 117-124: the prompt is built and generate_frames is entered
PostStep(s) ==
    [s EXCEPT !.pc = "generate_frames", !.prompt = <<"template subject style">>,
              !.attempt = 1]

Methods == {"GET", "POST"}

Init ==
    \E m \in Methods, n \in (0 - MinRetries)..MaxRetries :
        inv = [r \in {1} |-> Locals(m, n)]

\* lines 116, 175-177: a GET renders the empty form
Get(r) ==
    /\ inv[r].pc = "index" /\ inv[r].method = "GET"
    /\ inv' = [inv EXCEPT ![r] = [@ EXCEPT !.pc = "done"]]

Post(r) ==
    /\ inv[r].pc = "index" /\ inv[r].method = "POST"
    /\ inv' = [inv EXCEPT ![r] = PostStep(@)]

\* one attempt of request r, the backend outcome drawn from outcomes
AttemptFrom(r, outcomes) ==
    /\ inv[r].pc = "generate_frames" /\ InRange(inv[r])
    /\ \E o \in outcomes : inv' = [inv EXCEPT ![r] = AttemptStep(@, o)]

Attempt(r) == AttemptFrom(r, Outcomes)

ReturnNone(r) ==
    /\ inv[r].pc = "generate_frames" /\ ~InRange(inv[r])
    /\ inv' = [inv EXCEPT ![r] = LoopExhausted(@)]

\* line 138: response and response.candidates
HasCandidates(s) == ~s.response.isNone /\ s.response.candidates # <<>>

NoCandidatesFound(r) ==
    /\ inv[r].pc = "extract" /\ ~HasCandidates(inv[r])
    /\ inv' = [inv EXCEPT ![r] = NoCandidatesStep(@)]

ExtractPart(r) ==
    /\ inv[r].pc = "extract" /\ HasCandidates(inv[r])
    /\ inv[r].i <= Len(PartsOf(inv[r].response))
    /\ \E saved, up \in BOOLEAN : inv' = [inv EXCEPT ![r] = ExtractStep(@, saved, up)]

Assemble(r) ==
    /\ inv[r].pc = "extract" /\ HasCandidates(inv[r])
    /\ inv[r].i > Len(PartsOf(inv[r].response))
    /\ \E encoded \in BOOLEAN : inv' = [inv EXCEPT ![r] = AssembleStep(@, encoded)]

Reqs == DOMAIN inv

Next ==
    \/ \E r \in Reqs : Get(r)
    \/ \E r \in Reqs : Post(r)
    \/ \E r \in Reqs : Attempt(r)
    \/ \E r \in Reqs : ReturnNone(r)
    \/ \E r \in Reqs : NoCandidatesFound(r)
    \/ \E r \in Reqs : ExtractPart(r)
    \/ \E r \in Reqs : Assemble(r)

Spec == Init /\ [][Next]_vars

\* the handler is synchronous: a backend call, a sleep and every later step of
\* a request complete, so a request that can take a step takes one
\* backend outcomes of the liveness specification, one of each kind the loop
\* tells apart: an error, no response, one image, two different images
LiveOutcomes ==
    {RaiseOutcome,
     ReturnOutcome(NoResponse),
     ReturnOutcome(Response(<<ImagePart(100, 100, 1)>>)),
     ReturnOutcome(Response(<<ImagePart(100, 100, 1), ImagePart(100, 100, 2)>>))}

LiveAttempt(r) == AttemptFrom(r, LiveOutcomes)

LiveNext ==
    \/ \E r \in Reqs : Get(r)
    \/ \E r \in Reqs : Post(r)
    \/ \E r \in Reqs : LiveAttempt(r)
    \/ \E r \in Reqs : ReturnNone(r)
    \/ \E r \in Reqs : NoCandidatesFound(r)
    \/ \E r \in Reqs : ExtractPart(r)
    \/ \E r \in Reqs : Assemble(r)

\* every request thread keeps running: a sleep ends, a backend call returns
\* or raises
SpecLive == Init /\ [][LiveNext]_vars /\ WF_vars(LiveNext)

(* ------------------------ two concurrent requests ---------------------- *)

\* two POST requests served by two threads of the server
ConcReqs == {1, 2}

\* backend outcomes of the concurrent specification: an error, one image,
\* two different images
ConcOutcomes ==
    {RaiseOutcome,
     ReturnOutcome(Response(<<ImagePart(100, 100, 1)>>)),
     ReturnOutcome(Response(<<ImagePart(100, 100, 1), ImagePart(100, 100, 2)>>))}

ConcInit == inv = [r \in ConcReqs |-> Locals("POST", default_max_retries)]

ConcAttempt(r) == AttemptFrom(r, ConcOutcomes)

\* the steps of the two requests interleave in any order
ConcNext ==
    \/ \E r \in Reqs : Post(r)
    \/ \E r \in Reqs : ConcAttempt(r)
    \/ \E r \in Reqs : ExtractPart(r)
    \/ \E r \in Reqs : Assemble(r)

SpecConc == ConcInit /\ [][ConcNext]_vars

(* ------------------- normalisation over a range of sizes ---------------- *)

Grid == {k * DimStep : k \in 1..(MaxDim \div DimStep)}

NormSizes == ((1..MaxDim) \X Grid) \cup (Grid \X (1..MaxDim))

\* a request whose single backend call (max_retries = 1) returned one image
NormInit ==
    \E size \in NormSizes :
        inv = [r \in {1} |->
                 AttemptStep(PostStep(Locals("POST", 1)),
                             ReturnOutcome(Response(<<ImagePart(size[1], size[2], 1)>>)))]

NormNext ==
    \/ \E r \in Reqs : ExtractPart(r)
    \/ \E r \in Reqs : Assemble(r)

SpecNorm == NormInit /\ [][NormNext]_vars

(* =============================== claims ================================= *)

BasePrompt == PostStep(Locals("POST", 1)).prompt

\* request s has called generate_frames
Invoked(s) == s.method = "POST" /\ s.pc # "index"

\* generate_frames of request s is still in its loop
InLoop(s) == s.pc = "generate_frames" /\ ~s.returned /\ ~s.raised

\* every backend call made so far returned exactly n image parts
AllReturned(s, n) ==
    \A k \in DOMAIN s.log : s.log[k].kind = "return" /\ s.log[k].frame_count = n

\* every backend call made so far raised
AllRaised(s) == \A k \in DOMAIN s.log : s.log[k].kind = "raise"

StrictlyIncreasing(seq) ==
    \A j, k \in DOMAIN seq : j < k => seq[j] < seq[k]

\* C1: for max_retries >= 1 and any mix of raised errors and responses, one
\* invocation of generate_frames makes at most max_retries backend calls.
C1_AtMostMaxRetriesCalls ==
    \A r \in Reqs :
        inv[r].max_retries >= 1 =>
            /\ inv[r].calls <= inv[r].max_retries
            /\ Len(inv[r].log) = inv[r].calls

\* C1 witness: a finished invocation that used its whole budget of 3 calls on
\* a mix of errors and responses
C1_Witness ==
    \E r \in Reqs :
        /\ inv[r].max_retries = 3 /\ inv[r].calls = 3
        /\ inv[r].returned \/ inv[r].raised
        /\ \E j, k \in DOMAIN inv[r].log :
              inv[r].log[j].kind = "raise" /\ inv[r].log[k].kind = "return"

\* C2: when the response to attempt 1 holds 2 or more image parts,
\* generate_frames returns that response after exactly one backend call,
\* without a sleep and without a change of the prompt.
C2_FirstAttemptSuccess ==
    \A r \in Reqs :
        (/\ inv[r].max_retries >= 1
         /\ Len(inv[r].log) >= 1
         /\ inv[r].log[1].kind = "return"
         /\ inv[r].log[1].frame_count >= 2)
        => /\ inv[r].returned /\ ~inv[r].raised
           /\ inv[r].calls = 1
           /\ inv[r].sleeps = <<>>
           /\ inv[r].prompt = BasePrompt
           /\ inv[r].response = inv[r].gf_response
           /\ frame_count(inv[r].response) = inv[r].log[1].frame_count

\* C2 witness: a first response of 2 image parts, with a budget of 3
C2_Witness ==
    \E r \in Reqs :
        /\ inv[r].max_retries = 3 /\ inv[r].returned
        /\ inv[r].calls = 1 /\ frame_count(inv[r].response) = 2

\* C3: when every backend call succeeds with exactly 1 image part,
\* generate_frames makes exactly max_retries calls and then returns the 1-part
\* response of the last call, without raising.
C3_AlwaysOnePartDegraded ==
    \A r \in Reqs :
        (inv[r].max_retries >= 1 /\ Invoked(inv[r]) /\ AllReturned(inv[r], 1))
        => IF inv[r].calls < inv[r].max_retries
           THEN InLoop(inv[r])
           ELSE /\ inv[r].calls = inv[r].max_retries
                /\ inv[r].returned /\ ~inv[r].raised
                /\ inv[r].result # ERR_GENERATE
                /\ inv[r].response = inv[r].gf_response
                /\ frame_count(inv[r].response) = 1

\* C3 witness: three 1-part responses in a row, the third one returned
C3_Witness ==
    \E r \in Reqs :
        /\ inv[r].max_retries = 3 /\ Len(inv[r].log) = 3
        /\ AllReturned(inv[r], 1) /\ inv[r].returned
        /\ frame_count(inv[r].response) = 1

\* C4: when every backend call raises, generate_frames raises after exactly
\* max_retries attempts, and the backoff delays slept between the attempts
\* are strictly increasing.
C4_AlwaysRaisingBackend ==
    \A r \in Reqs :
        (inv[r].max_retries >= 1 /\ Invoked(inv[r]) /\ AllRaised(inv[r]))
        => /\ StrictlyIncreasing(inv[r].sleeps)
           /\ IF inv[r].calls < inv[r].max_retries
              THEN InLoop(inv[r]) /\ Len(inv[r].sleeps) = inv[r].calls
              ELSE /\ inv[r].calls = inv[r].max_retries
                   /\ inv[r].raised /\ ~inv[r].returned
                   /\ inv[r].result = ERR_GENERATE
                   /\ Len(inv[r].sleeps) = inv[r].max_retries - 1

\* C4 witness: three raising calls, two backoff sleeps, then the raise
C4_Witness ==
    \E r \in Reqs :
        /\ inv[r].raised /\ AllRaised(inv[r])
        /\ Len(inv[r].log) = 3 /\ Len(inv[r].sleeps) = 2

\* C5 (as claimed): whenever generate_frames raises, every one of the
\* max_retries backend calls raised.
C5_RaisesOnlyIfAllCallsRaised ==
    \A r \in Reqs :
        inv[r].raised => Len(inv[r].log) = inv[r].max_retries /\ AllRaised(inv[r])

\* C5 (amended): generate_frames raises exactly when its last, max_retries-th
\* backend call raised; each earlier call raised or returned at most 1 image
\* part, and a run whose last call obtained a response ends without an error.
C5_RaisesIffLastCallRaised ==
    \A r \in Reqs :
        /\ inv[r].raised =>
              /\ inv[r].max_retries >= 1
              /\ Len(inv[r].log) = inv[r].max_retries
              /\ inv[r].log[inv[r].max_retries].kind = "raise"
              /\ \A k \in 1..(inv[r].max_retries - 1) :
                    inv[r].log[k].kind = "raise" \/ inv[r].log[k].frame_count <= 1
              /\ ~inv[r].returned /\ inv[r].result = ERR_GENERATE
        /\ (/\ Invoked(inv[r]) /\ inv[r].max_retries >= 1
            /\ Len(inv[r].log) = inv[r].max_retries
            /\ inv[r].log[inv[r].max_retries].kind = "raise") => inv[r].raised
        /\ inv[r].returned => ~inv[r].raised /\ inv[r].result # ERR_GENERATE

\* C5 witness: generate_frames raised although an earlier call returned
C5_Witness ==
    \E r \in Reqs :
        /\ inv[r].raised /\ Len(inv[r].log) = 3
        /\ inv[r].log[1].kind = "return" /\ inv[r].log[2].kind = "return"

\* positions 1..n of parts that hold a decodable image, in ascending order
RECURSIVE ImageIndices(_, _)
ImageIndices(parts, n) ==
    IF n = 0 THEN <<>>
    ELSE IF parts[n].inline = "image" THEN Append(ImageIndices(parts, n - 1), n)
    ELSE ImageIndices(parts, n - 1)

\* the parts with inline data (raw frames) among positions 1..n
RawFrames(parts, n) == {k \in 1..n : parts[k].inline # "none"}

Sources(frames) == [k \in DOMAIN frames |-> frames[k].src]

\* a POST request that has been rendered
Completed(s) == s.method = "POST" /\ s.pc = "done"

\* C6: an animation is never built from zero frames: when no frame survives
\* decoding, the request ends in the "no frames" failure without an animation,
\* and whenever there is an animation there is at least one normalised frame.
C6_NoArtifactFromZeroFrames ==
    \A r \in Reqs :
        /\ ~inv[r].gif_base64.isNone =>
              inv[r].frames # <<>> /\ Len(inv[r].gif_base64.frames) >= 1
        /\ (Completed(inv[r]) /\ inv[r].returned /\ inv[r].frames = <<>>) =>
              inv[r].result = ERR_NO_FRAMES /\ inv[r].gif_base64.isNone

\* C6 witness: every raw frame of the response was undecodable
C6_Witness ==
    \E r \in Reqs :
        /\ Completed(inv[r]) /\ inv[r].frames = <<>>
        /\ Len(inv[r].load_errors) >= 2
        /\ inv[r].result = ERR_NO_FRAMES

\* C7: of N raw frames of which K fail to decode, the normalised frames are
\* exactly the N-K decodable ones in input order (an undecodable frame is
\* skipped and never ends the batch), and the animation is built from exactly
\* those frames in that order.
C7_DecodableFramesInOrder ==
    \A r \in Reqs :
        (inv[r].returned /\ HasCandidates(inv[r])) =>
            LET parts == PartsOf(inv[r].response)
                seen == inv[r].i - 1
            IN  /\ seen <= Len(parts)
                /\ Sources(inv[r].frames) = ImageIndices(parts, seen)
                /\ Len(inv[r].frames) =
                      Cardinality(RawFrames(parts, seen)) - Len(inv[r].load_errors)
                /\ \A k \in DOMAIN inv[r].frames :
                      /\ inv[r].frames[k].orig_w = parts[inv[r].frames[k].src].w
                      /\ inv[r].frames[k].orig_h = parts[inv[r].frames[k].src].h
                /\ inv[r].pc = "done" => seen = Len(parts)
                /\ ~inv[r].gif_base64.isNone =>
                      /\ Sources(inv[r].gif_base64.frames) =
                            ImageIndices(parts, Len(parts))
                      /\ \A k \in DOMAIN inv[r].frames :
                            inv[r].gif_base64.frames[k] = Optimized(inv[r].frames[k])

\* C7 witness: an undecodable frame between two decodable ones, animation made
C7_Witness ==
    \E r \in Reqs :
        /\ ~inv[r].gif_base64.isNone
        /\ inv[r].load_errors = <<2>>
        /\ Sources(inv[r].frames) = <<1, 3>>

\* C8: when the animation encode step throws, the request ends with the
\* "unable to create GIF" message, no animation is returned, and the
\* exception does not leave the handler.
C8_EncodeFailureIsReported ==
    \A r \in Reqs :
        inv[r].encode_raised =>
            /\ inv[r].pc = "done"
            /\ inv[r].result = ERR_GIF
            /\ inv[r].gif_base64 = NoGif
            /\ ~inv[r].escaped

\* C8 witness: the save of a two-frame animation raised
C8_Witness ==
    \E r \in Reqs : inv[r].encode_raised /\ Len(inv[r].frames) = 2

Failures == {ERR_GENERATE, ERR_NO_FRAMES, ERR_GIF}

Larger(a, b) == Max2(a, b)
Smaller(a, b) == IF a <= b THEN a ELSE b

\* the ratio w / h of the frame is within 1% of the ratio of its original:
\* |w / h - ow / oh| < ow / (100 * oh)
RatioKept(f) == 100 * Abs(f.w * f.orig_h - f.orig_w * f.h) < f.orig_w * f.h

\* the frame was made of an image wider or higher than 800
Downscaled(f) == Oversized(f.orig_w, f.orig_h)

\* the shorter side of the frame is the exact scaled length rounded down or up
ShorterSideRounded(f) ==
    LET long == Larger(f.orig_w, f.orig_h)
        short == Smaller(f.orig_w, f.orig_h)
        got == Smaller(f.w, f.h)
    IN  got >= 1 /\ (got = 1 \/ Abs(got * long - max_size[1] * short) < long)

\* C10 (as claimed): every image wider or higher than 800 is normalised to a
\* frame whose larger dimension is 800 and whose width/height ratio is within
\* 1% of the original ratio.
C10_RatioAlwaysKept ==
    \A r \in Reqs : \A k \in DOMAIN inv[r].frames :
        Downscaled(inv[r].frames[k]) =>
            /\ Larger(inv[r].frames[k].w, inv[r].frames[k].h) = max_size[1]
            /\ RatioKept(inv[r].frames[k])

\* C10 (amended): every image wider or higher than 800 is normalised to a
\* frame whose larger dimension is 800 and whose shorter side is the exactly
\* scaled length rounded to a neighbouring integer, at least 1; the ratio is
\* within 1% of the original ratio whenever the original's longer side is at
\* most 16 times its shorter side.
C10_RatioKeptUpTo16To1 ==
    \A r \in Reqs : \A k \in DOMAIN inv[r].frames :
        Downscaled(inv[r].frames[k]) =>
            /\ Larger(inv[r].frames[k].w, inv[r].frames[k].h) = max_size[1]
            /\ ShorterSideRounded(inv[r].frames[k])
            /\ Larger(inv[r].frames[k].orig_w, inv[r].frames[k].orig_h)
                  <= 16 * Smaller(inv[r].frames[k].orig_w, inv[r].frames[k].orig_h)
               => RatioKept(inv[r].frames[k])

\* C10 witness: a 1179 x 75 image (15.72 : 1) became an 800 x 51 frame
C10_Witness ==
    \E r \in Reqs : \E k \in DOMAIN inv[r].frames :
        /\ inv[r].frames[k].orig_w = 1179 /\ inv[r].frames[k].orig_h = 75
        /\ inv[r].frames[k].w = 800 /\ inv[r].frames[k].h = 51

\* C11: normalisation is idempotent on dimension: an image of width <= 800
\* and height <= 800 keeps its size, and normalising a normalised frame again
\* does not change its size.
C11_NormalizationIdempotent ==
    \A r \in Reqs : \A k \in DOMAIN inv[r].frames :
        LET f == inv[r].frames[k]
        IN  /\ ~Downscaled(f) => f.w = f.orig_w /\ f.h = f.orig_h
            /\ \A up \in BOOLEAN : NormalizedSize(f.w, f.h, up) = <<f.w, f.h>>

\* C11 witness: a 100 pixels wide image that fits the box was normalised
C11_Witness ==
    \E r \in Reqs : \E k \in DOMAIN inv[r].frames :
        /\ inv[r].frames[k].orig_w = 100 /\ inv[r].frames[k].orig_h <= 800
        /\ inv[r].frames[k].w = 100
        /\ inv[r].frames[k].h = inv[r].frames[k].orig_h

\* the frames a GIF reader finds in the file: the written frames, each as
\* large as the canvas
Decoded(gif) == [k \in DOMAIN gif.written |-> [w |-> gif.size[1], h |-> gif.size[2]]]

\* C12: assembling N >= 1 normalised frames gives an animation that decodes
\* back into exactly N frames, the i-th of them with the pixel dimensions of
\* the i-th normalised frame, also when the frames differ in size or are
\* identical to each other.
C12_GifRoundTrip ==
    \A r \in Reqs :
        ~inv[r].gif_base64.isNone =>
            /\ Len(Decoded(inv[r].gif_base64)) = Len(inv[r].frames)
            /\ \A k \in DOMAIN inv[r].frames :
                  /\ Decoded(inv[r].gif_base64)[k].w = inv[r].frames[k].w
                  /\ Decoded(inv[r].gif_base64)[k].h = inv[r].frames[k].h

\* C13: a batch with exactly one surviving frame still gives an animation
\* and the success outcome (the assembler does not ask for more than 1
\* frame), so a degraded 1-frame acquisition result ends in success whenever
\* the encode step does not throw.
C13_SingleFrameSucceeds ==
    \A r \in Reqs :
        (Completed(inv[r]) /\ Len(inv[r].frames) = 1 /\ ~inv[r].encode_raised) =>
            /\ inv[r].result = SUCCESS
            /\ ~inv[r].gif_base64.isNone
            /\ Len(inv[r].gif_base64.frames) = 1
            /\ Len(inv[r].gif_base64.written) = 1

\* C13 witness: three attempts, the last response with 1 image part returned
\* (degraded), one frame, success
C13_Witness ==
    \E r \in Reqs :
        /\ Completed(inv[r]) /\ inv[r].calls = 3 /\ inv[r].max_retries = 3
        /\ frame_count(inv[r].response) = 1
        /\ Len(inv[r].frames) = 1 /\ inv[r].result = SUCCESS

\* C14: a response that generate_frames returns on an attempt before attempt
\* max_retries holds more than 1 image part; a response with 0 or 1 image
\* parts (no candidates counts as 0) is returned only on attempt max_retries.
C14_EarlyReturnHasFrames ==
    \A r \in Reqs :
        (inv[r].returned /\ ~inv[r].response.isNone) =>
            /\ inv[r].attempt = inv[r].calls
            /\ inv[r].attempt < inv[r].max_retries =>
                  frame_count(inv[r].response) > 1
            /\ frame_count(inv[r].response) <= 1 =>
                  inv[r].attempt = inv[r].max_retries

\* C14 witness: a response without candidates returned on attempt 3 of 3
C14_Witness ==
    \E r \in Reqs :
        /\ inv[r].returned /\ inv[r].response = NoCandidates
        /\ inv[r].attempt = 3 /\ inv[r].max_retries = 3

\* the log entries 1..n whose response held at most 1 image part
LowResponses(log, n) ==
    {j \in 1..n : log[j].kind = "return" /\ log[j].frame_count <= 1}

\* the original prompt followed by n copies of the clarifying instruction
PromptWith(n) == BasePrompt \o [j \in 1..n |-> ENHANCE]

\* C15: the prompt sent at attempt k is the original prompt followed by one
\* copy of the clarifying instruction per earlier attempt that returned a
\* response with at most 1 image part; an attempt that raised leaves the
\* prompt as it was.
C15_PromptPerLowResponse ==
    \A r \in Reqs :
        /\ \A k \in DOMAIN inv[r].log :
              /\ inv[r].log[k].attempt = k
              /\ inv[r].log[k].prompt =
                    PromptWith(Cardinality(LowResponses(inv[r].log, k - 1)))
        /\ InLoop(inv[r]) =>
              inv[r].prompt =
                 PromptWith(Cardinality(LowResponses(inv[r].log, Len(inv[r].log))))

\* C15 witness: attempt 3 was sent with one instruction appended, after a
\* 1-part response and an error
C15_Witness ==
    \E r \in Reqs :
        /\ Len(inv[r].log) = 3
        /\ inv[r].log[1].kind = "return" /\ inv[r].log[2].kind = "raise"
        /\ inv[r].log[3].prompt = PromptWith(1)

\* generate_frames of request s has returned or raised
Finished(s) == s.returned \/ s.raised

\* C16: the delay after attempt k follows from the outcome of attempt k:
\* 2^k after an error with k < max_retries, 1 after a response with at most 1
\* image part with k < max_retries, none after the attempt on which
\* generate_frames returns or raises.
C16_DelayPerOutcome ==
    \A r \in Reqs :
        /\ Len(inv[r].sleeps) =
              IF Finished(inv[r]) /\ inv[r].calls >= 1
              THEN inv[r].calls - 1 ELSE inv[r].calls
        /\ \A k \in DOMAIN inv[r].sleeps :
              /\ k < inv[r].max_retries
              /\ inv[r].sleeps[k] =
                    IF inv[r].log[k].kind = "raise" THEN 2 ^ k ELSE 1

\* C16 witness: an error, then a low response, then the final attempt
C16_Witness ==
    \E r \in Reqs :
        /\ Finished(inv[r]) /\ inv[r].calls = 3
        /\ inv[r].sleeps = <<2, 1>>

\* C19: called with max_retries <= 0, generate_frames makes no backend call,
\* does not sleep, raises nothing and returns None; the handler takes None as
\* zero frames and reports "No frames generated" without an animation.
C19_NoBudgetReturnsNone ==
    \A r \in Reqs :
        (Invoked(inv[r]) /\ inv[r].max_retries <= 0) =>
            /\ inv[r].calls = 0 /\ inv[r].log = <<>>
            /\ inv[r].sleeps = <<>>
            /\ ~inv[r].raised
            /\ inv[r].pc # "generate_frames" =>
                  inv[r].returned /\ inv[r].response = NoResponse
            /\ inv[r].frames = <<>> /\ inv[r].frames_base64 = <<>>
            /\ inv[r].gif_base64 = NoGif
            /\ inv[r].pc = "done" => inv[r].result = ERR_NO_FRAMES

\* C19 witness: a request with max_retries = 0 rendered "No frames generated"
C19_Witness ==
    \E r \in Reqs :
        /\ Completed(inv[r]) /\ inv[r].max_retries = 0
        /\ inv[r].returned /\ inv[r].response = NoResponse
        /\ inv[r].result = ERR_NO_FRAMES

\* the still belongs to the frame: its PNG, or "" when its encoding failed
StillOf(still, frame) ==
    \/ still = EmptyStill
    \/ /\ still.format = "PNG" /\ still.src = frame.src
       /\ still.w = frame.w /\ still.h = frame.h

\* C20: at every point of the extraction the list of normalised frames and
\* the list of stills have the same length and correspond index by index; a
\* frame whose still could not be encoded stays in the animation and has the
\* empty string as its still, a part that failed to decode is in neither list.
C20_FramesAndStillsAligned ==
    \A r \in Reqs :
        /\ Len(inv[r].frames) = Len(inv[r].frames_base64)
        /\ \A k \in DOMAIN inv[r].frames :
              StillOf(inv[r].frames_base64[k], inv[r].frames[k])
        /\ \A k \in DOMAIN inv[r].load_errors :
              /\ PartsOf(inv[r].response)[inv[r].load_errors[k]].inline = "corrupt"
              /\ \A j \in DOMAIN inv[r].frames :
                    inv[r].frames[j].src # inv[r].load_errors[k]
        /\ ~inv[r].gif_base64.isNone =>
              Len(inv[r].gif_base64.frames) = Len(inv[r].frames_base64)

\* C20 witness: an animation of two frames, the still of the second is empty,
\* and one part failed to decode
C20_Witness ==
    \E r \in Reqs :
        /\ ~inv[r].gif_base64.isNone
        /\ Len(inv[r].frames) = 2 /\ Len(inv[r].load_errors) = 1
        /\ inv[r].frames_base64[1].format = "PNG"
        /\ inv[r].frames_base64[2] = EmptyStill

\* the state of the retry loop of request s
Attempting(s) == s.pc = "generate_frames" /\ ~s.returned /\ ~s.raised
Success(s) == s.returned /\ ~s.raised /\ frame_count(s.response) > 1
Degraded(s) == s.returned /\ ~s.raised /\ frame_count(s.response) <= 1
Exhausted(s) == s.raised /\ ~s.returned
Final(s) == Success(s) \/ Degraded(s) \/ Exhausted(s)

\* exactly one of the four states holds
OneLoopState(s) ==
    Cardinality({x \in {"Attempting", "Success", "Degraded", "Exhausted"} :
                   \/ x = "Attempting" /\ Attempting(s)
                   \/ x = "Success" /\ Success(s)
                   \/ x = "Degraded" /\ Degraded(s)
                   \/ x = "Exhausted" /\ Exhausted(s)}) = 1

\* the requests of SpecLive
LiveReqs == {1}

\* C17: for max_retries >= 1 every invocation of generate_frames ends (each
\* backend call and sleep completing) in exactly one of Success, Degraded and
\* Exhausted: while Attempting it has budget left, it does not stay in
\* Attempting for ever, and a final state is never left.
C17_GenerateFramesTerminates ==
    /\ [](\A r \in Reqs :
            (Invoked(inv[r]) /\ inv[r].max_retries >= 1) =>
                /\ OneLoopState(inv[r])
                /\ Attempting(inv[r]) =>
                      /\ inv[r].calls < inv[r].max_retries
                      /\ inv[r].attempt = inv[r].calls + 1)
    /\ \A r \in LiveReqs :
          (Attempting(inv[r]) /\ inv[r].max_retries >= 1) ~> Final(inv[r])
    /\ [][\A r \in Reqs :
             /\ Success(inv[r]) => Success(inv'[r])
             /\ Degraded(inv[r]) => Degraded(inv'[r])
             /\ Exhausted(inv[r]) => Exhausted(inv'[r])]_vars

\* C17 witness: the loop ended Degraded after an error and two low responses
C17_Witness ==
    \E r \in Reqs :
        /\ Degraded(inv[r]) /\ inv[r].max_retries = 3 /\ inv[r].calls = 3
        /\ \E k \in DOMAIN inv[r].log : inv[r].log[k].kind = "raise"

\* the attempt counter, the prompt and the sleeps of s are what its own
\* backend outcomes (s.log) make them when it runs alone
LoopFromOwnLog(s) ==
    LET n == Len(s.log)
        open == IF Finished(s) /\ n >= 1 THEN n - 1 ELSE n
    IN  /\ s.calls = n
        /\ Invoked(s) => s.attempt = open + 1
        /\ Invoked(s) => s.prompt = PromptWith(Cardinality(LowResponses(s.log, open)))
        /\ Len(s.sleeps) = open
        /\ \A k \in DOMAIN s.sleeps :
              s.sleeps[k] = IF s.log[k].kind = "raise" THEN 2 ^ k ELSE retry_delay
        /\ s.returned => s.response = s.gf_response

\* the frame lists of s are made of the parts of its own response
FramesFromOwnResponse(s) ==
    LET parts == PartsOf(s.response)
    IN  /\ Sources(s.frames) = ImageIndices(parts, Len(parts))
           \/ (s.pc = "extract" /\ Sources(s.frames) = ImageIndices(parts, s.i - 1))
        /\ \A k \in DOMAIN s.frames :
              \E up \in BOOLEAN : s.frames[k] = Frame(s.frames[k].src, parts[s.frames[k].src], up)
        /\ Len(s.frames_base64) = Len(s.frames)
        /\ ~s.gif_base64.isNone => s.gif_base64 = EncodeGif(s.frames)

\* C18: two interleaved invocations do not affect each other: a step changes
\* the locals of one request only, and the attempt counter, the prompt, the
\* sleeps and the frame lists of each request are what its own backend
\* outcomes make them, so the retries and prompt changes of one request never
\* show in the other.
C18_InvocationsIsolated ==
    /\ [](\A r \in Reqs : LoopFromOwnLog(inv[r]) /\ FramesFromOwnResponse(inv[r]))
    /\ [][\A r, q \in Reqs : r # q => (inv'[r] = inv[r] \/ inv'[q] = inv[q])]_vars

\* C18 witness: both requests are in their retry loops, request 1 after two
\* low responses (two instructions appended), request 2 after two errors
\* (original prompt)
C18_Witness ==
    /\ Reqs = ConcReqs
    /\ Attempting(inv[1]) /\ Attempting(inv[2])
    /\ inv[1].prompt = PromptWith(2) /\ inv[1].sleeps = <<1, 1>>
    /\ inv[2].prompt = PromptWith(0) /\ inv[2].sleeps = <<2, 4>>

====
